---- MODULE Spec2Model ----
(***************************************************************************)
(* The R33IS migration engine: the atomic migration (migrate_data.py) and  *)
(* the stepwise, operator-confirmed migration (step_migration.py), both    *)
(* writing the master database from the product, route and item stores.    *)
(*                                                                         *)
(* A text value is a sequence of one-character strings; SQL NULL / Python  *)
(* None is the one-element sequence None.  An optional integer is a set    *)
(* with at most one element ({} is NULL).  A table is the sequence of its  *)
(* rows in rowid order; route_load_summary, whose rows carry no order the  *)
(* program reads, is a bag of rows.                                        *)
(***************************************************************************)
EXTENDS Integers, Sequences, FiniteSets, Bags, TLC

\* ------------------------------------------------------------------ bounds
\* Runs of the scripts in one behaviour (the second run meets the first's rows).
MaxRuns == 2
\* Steps the operator declines in one behaviour.
MaxSkips == 1
\* Unexpected errors (I/O, missing table, end of input) in one behaviour.
MaxFaults == 1
\* Source stores that deviate from the baseline data in one behaviour.
MaxOdd == 1

\* ------------------------------------------------------------------- text
None == <<"None">>

Digits == {"0", "1", "2", "3", "4", "5", "6", "7", "8", "9"}

\* The characters of the model's text values, in code-point order.
Alphabet == <<" ", "+", ",", "-", "0", "1", "2", "3", "4", "5", "6", "7", "8",
              "9", "A", "F", "M", "T", "W", "X", "h">>

CharRank(c) == CHOOSE i \in 1..Len(Alphabet) : Alphabet[i] = c

DigitVal(c) == CharRank(c) - 5

\* str < str, as SQLite's BINARY collation and Python compare text.
RECURSIVE StrLess(_, _)
StrLess(a, b) ==
    IF b = <<>> THEN FALSE
    ELSE IF a = <<>> THEN TRUE
    ELSE IF Head(a) = Head(b) THEN StrLess(Tail(a), Tail(b))
    ELSE CharRank(Head(a)) < CharRank(Head(b))

\* s.split(sep): the pieces of s between the occurrences of sep.
RECURSIVE Split(_, _)
Split(s, sep) ==
    IF \A i \in 1..Len(s) : s[i] # sep THEN <<s>>
    ELSE LET k == CHOOSE i \in 1..Len(s) :
                      s[i] = sep /\ \A j \in 1..(i - 1) : s[j] # sep
         IN  <<SubSeq(s, 1, k - 1)>> \o Split(SubSeq(s, k + 1, Len(s)), sep)

\* s.strip(): s without its leading and trailing blanks.
RECURSIVE Strip(_)
Strip(s) ==
    IF s = <<>> THEN s
    ELSE IF Head(s) = " " THEN Strip(Tail(s))
    ELSE IF s[Len(s)] = " " THEN Strip(SubSeq(s, 1, Len(s) - 1))
    ELSE s

\* s.isdigit(): non-empty and digits only.
IsDigit(s) == s # <<>> /\ \A i \in 1..Len(s) : s[i] \in Digits

RECURSIVE DigitsVal(_)
DigitsVal(s) ==
    IF s = <<>> THEN 0 ELSE 10 * DigitsVal(SubSeq(s, 1, Len(s) - 1)) + DigitVal(s[Len(s)])

\* The text int() parses after stripping blanks: an optional sign and digits.
Unsigned(s) == IF s # <<>> /\ Head(s) \in {"+", "-"} THEN Tail(s) ELSE s

\* int(s) does not raise ValueError.
IntOK(s) == IsDigit(Unsigned(Strip(s)))

\* int(s), for a text int() accepts.
IntOf(s) ==
    LET t == Strip(s)
    IN  IF Head(t) = "-" THEN 0 - DigitsVal(Unsigned(t)) ELSE DigitsVal(Unsigned(t))

\* str(n) of a small integer.
RECURSIVE StrOfNat(_)
StrOfNat(n) ==
    IF n < 10 THEN <<Alphabet[n + 5]>> ELSE StrOfNat(n \div 10) \o <<Alphabet[(n % 10) + 5]>>


\* ---------------------------------------------------------------- sources
Some(n) == {n}
Null == {}

\* products.db: categories (id, name) and products (sku, name, category_id).
Cat(id, name) == [id |-> id, name |-> name]
Prod(sku, name, cat) == [sku |-> sku, name |-> name, category_id |-> cat]
\* routes.db: one row per customer.
Cust(num, name, route, days) ==
    [CustomerNumber |-> num, AccountName |-> name, RouteNumber |-> route, ServiceDays |-> days]
\* items.db: one row per rental record.
Item(id, desc, cust, qty, route) ==
    [item_id |-> id, description |-> desc, customer_num |-> cust,
     quantity_used |-> qty, route |-> route]

R10x5 == <<"1", "0", "-", "5">>
R7 == <<"7">>
RAx5 == <<"A", "-", "5">>
R33x5x1 == <<"3", "3", "-", "5", "-", "1">>
RPlus7 == <<"+", "7">>
DaysMW == <<"M", ",", " ", "W">>
DaysTh == <<"T", "h">>
DaysX == <<"X">>

\* The product store: the baseline and the stores that deviate from it.
ProductStores ==
    << [categories |-> <<Cat(1, "Soap"), Cat(2, "Paper")>>,
        products |-> <<Prod("s1", "Bar", 1), Prod("s2", "Roll", 2)>>],
       [categories |-> <<>>, products |-> <<>>],
       [categories |-> <<Cat(1, "Soap"), Cat(1, "Suds"), Cat(2, "Paper")>>,
        products |-> <<Prod("s1", "Bar", 1)>>],
       [categories |-> <<Cat(1, "Soap")>>,
        products |-> <<Prod("s1", "Bar", 1), Prod("s1", "Cake", 1), Prod("s2", "Roll", 1)>>] >>

\* The route store.
RouteStores ==
    << <<Cust(101, "Acme", R10x5, DaysMW), Cust(102, "Bolt", R7, DaysTh)>>,
       <<>>,
       <<Cust(101, "Acme", R10x5, DaysMW), Cust(101, "Apex", R10x5, None),
         Cust(102, "Bolt", R7, DaysTh)>>,
       <<Cust(101, "Acme", RAx5, DaysX), Cust(102, "Bolt", R33x5x1, None),
         Cust(103, "Core", RPlus7, <<>>)>> >>

\* The item store.
ItemStores ==
    << <<Item(7, "Mat", 101, 3, Some(5)), Item(7, "Mat", 102, 2, Some(7)),
         Item(7, "Mat", 101, 1, Null)>>,
       <<>>,
       <<Item(7, "Mat", 101, 3, Some(5)), Item(8, "Mop", 999, 2, Some(0))>>,
       <<Item(7, "Rug", 101, 3, Some(-3)), Item(7, "Mat", 102, 2, Some(7)),
         Item(9, "Mat", 101, 1, Some(5))>> >>

\* The sources of the end-to-end scenario: one customer (number 1, "Acme") on
\* route "10-5" and one rental record (item 99, "Mat", quantity 3, route 5).
EndToEnd ==
    [products |-> ProductStores[1],
     routes |-> <<Cust(1, "Acme", R10x5, None)>>,
     items |-> <<Item(99, "Mat", 1, 3, Some(5))>>]

\* A behaviour's sources: at most MaxOdd of the three stores deviate from the
\* baseline; or the end-to-end scenario.
Inputs ==
    { [products |-> ProductStores[p], routes |-> RouteStores[r], items |-> ItemStores[i]] :
        <<p, r, i>> \in { t \in (1..Len(ProductStores)) \X (1..Len(RouteStores))
                                  \X (1..Len(ItemStores)) :
                            Cardinality({k \in 1..3 : t[k] # 1}) <= MaxOdd } }
      \cup {EndToEnd}


\* ----------------------------------------------------------------- target
\* master.db with every table empty.
EmptyDB ==
    [categories |-> <<>>, direct_sales |-> <<>>, customers |-> <<>>,
     rental_items_catalog |-> <<>>, customer_rental_items |-> <<>>, routes |-> <<>>,
     route_load_summary |-> EmptyBag, drivers |-> <<>>, customers_fts |-> <<>>]

\* The tables of the model that the clear empties, in the order of its list
\* (the nine other names of the list are tables the migration never writes).
ClearList ==
    <<"customers", "routes", "drivers", "categories", "direct_sales",
      "rental_items_catalog", "customer_rental_items", "route_load_summary">>

\* PRAGMA foreign_keys = OFF: the connection does not enforce foreign keys.
ForeignKeys == FALSE

\* The unique column of a table of the master schema.
UniqueColumn ==
    [categories |-> "id", direct_sales |-> "sku", customers |-> "CustomerNumber",
     rental_items_catalog |-> "item_id", routes |-> "RouteNumber", customers_fts |-> "rowid"]

\* The standardization_score of a catalog row inserted without one.
ScoreDefault == 0

\* INSERT of row into tbl raises sqlite3.IntegrityError.
Violates(db, tbl, row) ==
    \/ /\ tbl \in DOMAIN UniqueColumn
       /\ \E i \in 1..Len(db[tbl]) : db[tbl][i][UniqueColumn[tbl]] = row[UniqueColumn[tbl]]
    \/ /\ ForeignKeys
       /\ tbl = "customer_rental_items"
       /\ \A i \in 1..Len(db.customers) :
              db.customers[i].CustomerNumber # row.CustomerNumber

\* master_cur.execute("INSERT INTO tbl ..."): the row is appended, or the
\* statement raises and leaves the table as it was.
Execute(db, tbl, row) ==
    IF Violates(db, tbl, row)
    THEN [ok |-> FALSE, db |-> db]
    ELSE [ok |-> TRUE, db |-> [db EXCEPT ![tbl] = Append(@, row)]]

\* DELETE FROM tbl.
Delete(db, tbl) ==
    [db EXCEPT ![tbl] = IF tbl = "route_load_summary" THEN EmptyBag ELSE <<>>]

\* A faulty variant: the loop ends at the first sqlite3.IntegrityError.
RECURSIVE InsertUntilError(_, _, _)
InsertUntilError(db, tbl, rows) ==
    IF rows = <<>> THEN [db |-> db, succeeded |-> 0, failed |-> 0]
    ELSE LET r == Execute(db, tbl, Head(rows))
             rest == InsertUntilError(r.db, tbl, Tail(rows))
         IN  IF r.ok
             THEN [db |-> rest.db, succeeded |-> rest.succeeded + 1, failed |-> rest.failed]
             ELSE [db |-> db, succeeded |-> 0, failed |-> 1]

\* A loop of inserts with each sqlite3.IntegrityError caught: the table
\* state, the rows inserted and the rows that failed.
RECURSIVE InsertEach(_, _, _)
InsertEach(db, tbl, rows) ==
    IF rows = <<>> THEN [db |-> db, succeeded |-> 0, failed |-> 0]
    ELSE LET r == Execute(db, tbl, Head(rows))
             rest == InsertEach(r.db, tbl, Tail(rows))
         IN  [db |-> rest.db,
              succeeded |-> rest.succeeded + (IF r.ok THEN 1 ELSE 0),
              failed |-> rest.failed + (IF r.ok THEN 0 ELSE 1)]

\* master_cur.executemany: the inserts in order; the first IntegrityError
\* ends it and propagates (the rows before it stay in the open transaction).
RECURSIVE ExecuteMany(_, _, _)
ExecuteMany(db, tbl, rows) ==
    IF rows = <<>> THEN [ok |-> TRUE, db |-> db]
    ELSE LET r == Execute(db, tbl, Head(rows))
         IN  IF r.ok THEN ExecuteMany(r.db, tbl, Tail(rows)) ELSE r


\* ------------------------------------------------------- rows of each step
\* Steps 1 and 2: the category rows as read; the product rows with
\* stock_quantity 0 and image_url NULL.
CategoryRows(src) == src.products.categories

ProductRows(src) ==
    [i \in 1..Len(src.products.products) |->
        [sku |-> src.products.products[i].sku, name |-> src.products.products[i].name,
         category_id |-> src.products.products[i].category_id,
         stock_quantity |-> 0, image_url |-> None]]

\* A faulty variant: the clock is read again for every row.
CustomerRowsClockPerRow(src, now) ==
    [i \in 1..Len(src.routes) |->
        [CustomerNumber |-> src.routes[i].CustomerNumber,
         AccountName |-> src.routes[i].AccountName,
         RouteNumber |-> src.routes[i].RouteNumber,
         ServiceDays |-> src.routes[i].ServiceDays,
         Email |-> None, Phone |-> None, CreatedAt |-> now + i]]

\* Step 3: the customer rows with Email and Phone NULL and CreatedAt = now.
CustomerRows(src, now) ==
    [i \in 1..Len(src.routes) |->
        [CustomerNumber |-> src.routes[i].CustomerNumber,
         AccountName |-> src.routes[i].AccountName,
         RouteNumber |-> src.routes[i].RouteNumber,
         ServiceDays |-> src.routes[i].ServiceDays,
         Email |-> None, Phone |-> None, CreatedAt |-> now]]

\* Step 4: SELECT DISTINCT item_id, description FROM items ORDER BY item_id.
\* The order of two pairs with the same item_id is the engine's choice, so
\* this is the set of the orders the query can return.
UniqueItems(src) ==
    LET P == { [item_id |-> src.items[i].item_id, description |-> src.items[i].description] :
                 i \in 1..Len(src.items) }
        n == Cardinality(P)
    IN  { q \in [1..n -> P] :
            /\ \A i, j \in 1..n : i # j => q[i] # q[j]
            /\ \A i, j \in 1..n : i < j => q[i].item_id <= q[j].item_id }

\* The catalog row of a pair: the atomic script names no score, the stepwise one 0.
CatalogRow(item) ==
    [item_id |-> item.item_id, description |-> item.description, category |-> "General",
     is_active |-> 1, standardization_score |-> ScoreDefault]

CatalogRowStep(item) ==
    [item_id |-> item.item_id, description |-> item.description, category |-> "General",
     is_active |-> 1, standardization_score |-> 0]

CatalogRows(mode, items) ==
    [i \in 1..Len(items) |->
        IF mode = "atomic" THEN CatalogRow(items[i]) ELSE CatalogRowStep(items[i])]

\* A faulty variant: the remainder is stored as it is, without the + 1.
DeliveryDayNoShift(route) ==
    IF route = Null \/ route = Some(0) THEN 1
    ELSE (CHOOSE r \in route : TRUE) % 5

\* Step 5: delivery_day = (route % 5) + 1 if route else 1.
DeliveryDay(route) ==
    IF route = Null \/ route = Some(0) THEN 1
    ELSE ((CHOOSE r \in route : TRUE) % 5) + 1

\* A faulty variant: the loop goes through the fetched records twice.
RentalRowsTwice(src) ==
    [n \in 1..(2 * Len(src.items)) |->
        LET i == ((n - 1) % Len(src.items)) + 1
        IN  [CustomerNumber |-> src.items[i].customer_num, item_id |-> src.items[i].item_id,
             description |-> src.items[i].description,
             quantity_used |-> src.items[i].quantity_used,
             delivery_frequency |-> "Weekly", delivery_day |-> DeliveryDay(src.items[i].route),
             billing_frequency |-> "Monthly"]]

RentalRows(src) ==
    [i \in 1..Len(src.items) |->
        [CustomerNumber |-> src.items[i].customer_num, item_id |-> src.items[i].item_id,
         description |-> src.items[i].description,
         quantity_used |-> src.items[i].quantity_used,
         delivery_frequency |-> "Weekly", delivery_day |-> DeliveryDay(src.items[i].route),
         billing_frequency |-> "Monthly"]]

\* Step 6: SELECT DISTINCT RouteNumber FROM routes ORDER BY RouteNumber.
RECURSIVE SortText(_)
SortText(set) ==
    IF set = {} THEN <<>>
    ELSE LET m == CHOOSE x \in set : \A y \in set \ {x} : StrLess(x, y)
         IN  <<m>> \o SortText(set \ {m})

UniqueRoutes(src) == SortText({src.routes[i].RouteNumber : i \in 1..Len(src.routes)})

day_map(code) ==
    CASE code = <<"M">> -> "Monday"
      [] code = <<"T">> -> "Tuesday"
      [] code = <<"W">> -> "Wednesday"
      [] code = <<"T", "h">> -> "Thursday"
      [] code = <<"F">> -> "Friday"
      [] OTHER -> "Monday"

\* A faulty variant: the last comma-separated code is taken, not the first.
ServiceDayLastCode(src, route_number) ==
    LET hits == {i \in 1..Len(src.routes) : src.routes[i].RouteNumber = route_number}
        days == src.routes[CHOOSE i \in hits : \A j \in hits : i <= j].ServiceDays
    IN  IF hits = {} \/ days = None \/ days = <<>> THEN "Monday"
        ELSE day_map(Strip(Split(days, ",")[Len(Split(days, ","))]))

\* SELECT ServiceDays FROM routes WHERE RouteNumber = ? LIMIT 1, then the
\* first comma-separated code of it, stripped, mapped to a day name.
ServiceDay(src, route_number) ==
    LET hits == {i \in 1..Len(src.routes) : src.routes[i].RouteNumber = route_number}
        days == src.routes[CHOOSE i \in hits : \A j \in hits : i <= j].ServiceDays
    IN  IF hits = {} \/ days = None \/ days = <<>> THEN "Monday"
        ELSE day_map(Strip(Split(days, ",")[1]))

RouteRow(route_number, route_int, driver, plant, service_day) ==
    [RouteNumber |-> route_number, RouteInt |-> route_int, DriverName |-> driver,
     PlantNumber |-> plant, ServiceDay |-> service_day]

\* A faulty variant: the two parts are taken the other way round.
CompositeRouteSwapped(route_number, service_day) ==
    LET parts == Split(route_number, "-")
    IN  IF Len(parts) = 2
        THEN IF IntOK(parts[2]) /\ IntOK(parts[1])
             THEN [ok |-> TRUE,
                   row |-> RouteRow(route_number, Some(IntOf(parts[1])), parts[1],
                                    Some(IntOf(parts[2])), service_day)]
             ELSE [ok |-> FALSE, row |-> <<>>]
        ELSE [ok |-> TRUE,
              row |-> RouteRow(route_number, Null, route_number, Null, service_day)]

\* A faulty variant: the parts are unpacked without the test of their number.
CompositeRouteUnpacked(route_number, service_day) ==
    LET parts == Split(route_number, "-")
    IN  IF Len(parts) = 2 /\ IntOK(parts[2]) /\ IntOK(parts[1])
        THEN [ok |-> TRUE,
              row |-> RouteRow(route_number, Some(IntOf(parts[2])), parts[2],
                               Some(IntOf(parts[1])), service_day)]
        ELSE [ok |-> FALSE, row |-> <<>>]

\* "-" in route_number: two parts are parsed with int(), which may raise
\* ValueError (ok = FALSE); any other number of parts gives an opaque row.
CompositeRoute(route_number, service_day) ==
    LET parts == Split(route_number, "-")
    IN  IF Len(parts) = 2
        THEN IF IntOK(parts[2]) /\ IntOK(parts[1])
             THEN [ok |-> TRUE,
                   row |-> RouteRow(route_number, Some(IntOf(parts[2])), parts[2],
                                    Some(IntOf(parts[1])), service_day)]
             ELSE [ok |-> FALSE, row |-> <<>>]
        ELSE [ok |-> TRUE,
              row |-> RouteRow(route_number, Null, route_number, Null, service_day)]

\* No "-": the atomic script takes route_number.isdigit() as numeric.
PlainRoute(route_number, service_day) ==
    [ok |-> TRUE,
     row |-> IF IsDigit(route_number)
             THEN RouteRow(route_number, Some(IntOf(route_number)), route_number, Null,
                           service_day)
             ELSE RouteRow(route_number, Null, route_number, Null, service_day)]

\* No "-": the stepwise script takes whatever int() accepts as numeric.
PlainRouteStep(route_number, service_day) ==
    [ok |-> TRUE,
     row |-> IF IntOK(route_number)
             THEN RouteRow(route_number, Some(IntOf(route_number)), route_number, Null,
                           service_day)
             ELSE RouteRow(route_number, Null, route_number, Null, service_day)]

\* The route row built for one route number, or ok = FALSE when building it raises.
BuildRoute(mode, src, route_number) ==
    LET service_day == ServiceDay(src, route_number)
    IN  IF \E i \in 1..Len(route_number) : route_number[i] = "-"
        THEN CompositeRoute(route_number, service_day)
        ELSE IF mode = "atomic" THEN PlainRoute(route_number, service_day)
             ELSE PlainRouteStep(route_number, service_day)

\* One pass of the route loop's body: whatever it raises is caught (except
\* Exception) and the route is left out.  error is the exception's kind.
RouteInsert(mode, src, db, route_number) ==
    LET b == BuildRoute(mode, src, route_number)
        r == Execute(db, "routes", b.row)
    IN  IF ~b.ok THEN [ok |-> FALSE, db |-> db, error |-> "ValueError"]
        ELSE [ok |-> r.ok, db |-> r.db, error |-> "IntegrityError"]

\* The atomic script's route loop: the table state, successful_routes and
\* the kinds of the exceptions caught.  A route of unlucky meets an
\* unexpected error in the body before its INSERT.
RECURSIVE RouteLoop(_, _, _, _)
RouteLoop(src, db, route_numbers, unlucky) ==
    IF route_numbers = <<>> THEN [db |-> db, succeeded |-> 0, errors |-> {}]
    ELSE LET r == IF Head(route_numbers) \in unlucky
                  THEN [ok |-> FALSE, db |-> db, error |-> "OperationalError"]
                  ELSE RouteInsert("atomic", src, db, Head(route_numbers))
             rest == RouteLoop(src, r.db, Tail(route_numbers), unlucky)
         IN  [db |-> rest.db,
              succeeded |-> rest.succeeded + (IF r.ok THEN 1 ELSE 0),
              errors |-> rest.errors \cup (IF r.ok THEN {} ELSE {r.error})]

\* ------------------------------------------------------------ aggregation
\* A faulty variant: the join without its condition on the route.
JoinedAnyRoute(db) ==
    { t \in (1..Len(db.customer_rental_items)) \X (1..Len(db.customers))
              \X (1..Len(db.routes)) :
        db.customer_rental_items[t[1]].CustomerNumber = db.customers[t[2]].CustomerNumber }

\* The rows of customer_rental_items JOIN customers JOIN routes, as index triples.
Joined(db) ==
    { t \in (1..Len(db.customer_rental_items)) \X (1..Len(db.customers))
              \X (1..Len(db.routes)) :
        /\ db.customer_rental_items[t[1]].CustomerNumber = db.customers[t[2]].CustomerNumber
        /\ db.customers[t[2]].RouteNumber = db.routes[t[3]].RouteNumber }

\* GROUP BY c.RouteNumber, r.ServiceDay, cri.item_id.
GroupOf(db, t) ==
    <<db.customers[t[2]].RouteNumber, db.routes[t[3]].ServiceDay,
      db.customer_rental_items[t[1]].item_id>>

RECURSIVE SumQuantity(_, _)
SumQuantity(db, T) ==
    IF T = {} THEN 0
    ELSE LET t == CHOOSE x \in T : TRUE
         IN  db.customer_rental_items[t[1]].quantity_used + SumQuantity(db, T \ {t})

\* The rows the INSERT .. SELECT of the load summary can produce: one per
\* group with the sum of its quantities; description is a bare column of the
\* grouped query, so it is that of some row of the group.
RouteLoadSelect(db) ==
    LET J == Joined(db)
        G == {GroupOf(db, t) : t \in J}
        Members(g) == {t \in J : GroupOf(db, t) = g}
        Descs(g) == {db.customer_rental_items[t[1]].description : t \in Members(g)}
        All == UNION {Descs(g) : g \in G}
    IN  { { [RouteNumber |-> g[1], ServiceDay |-> g[2], item_id |-> g[3],
             description |-> f[g], total_quantity |-> SumQuantity(db, Members(g))] :
            g \in G } :
          f \in {h \in [G -> All] : \A g \in G : h[g] \in Descs(g)} }

\* Step 7 of the stepwise script: the precondition on the three base tables.
HasPrerequisites(db) ==
    ~(Len(db.customer_rental_items) = 0 \/ Len(db.customers) = 0 \/ Len(db.routes) = 0)

\* A faulty variant: the selected rows are added twice.
InsertRouteLoadsTwice(db, selected) ==
    [db EXCEPT !.route_load_summary = @ (+) SetToBag(selected) (+) SetToBag(selected)]

\* The INSERT into route_load_summary: the selected rows are added to the
\* rows the table holds.
InsertRouteLoads(db, selected) ==
    [db EXCEPT !.route_load_summary = @ (+) SetToBag(selected)]

\* Step 10: UPDATE rental_items_catalog SET standardization_score = COUNT(DISTINCT
\* CustomerNumber) over the rental rows matching the catalog row on column key.
UpdateScores(db, key) ==
    LET catalog == db.rental_items_catalog
        rental == db.customer_rental_items
        Score(row) == Cardinality({ rental[j].CustomerNumber :
                                    j \in {k \in 1..Len(rental) : rental[k][key] = row[key]} })
    IN  [db EXCEPT !.rental_items_catalog =
            [i \in 1..Len(catalog) |->
                [catalog[i] EXCEPT !.standardization_score = Score(catalog[i])]]]

\* The matching column: description in the atomic script, item_id in the stepwise one.
ScoreKey(mode) == IF mode = "atomic" THEN "description" ELSE "item_id"

\* Step 8: the SuperAdmin driver row.
AdminRow(route_number, now) ==
    [name |-> "Admin User", email |-> "admin@example.com",
     password_hash |-> "$2b$10$XH0yWAP7WZYCQiEVJ7Cy5u1j.JbPl0kJqN75YDz.O4vszTyFdPJUm",
     route_number |-> route_number, role |-> "SuperAdmin", created_at |-> now]

\* The admin's route: "33" in the atomic script; in the stepwise one the
\* first row of routes, "33" when there is none.
AdminRoute(mode, db) ==
    IF mode = "atomic" \/ Len(db.routes) = 0 THEN <<"3", "3">> ELSE db.routes[1].RouteNumber

\* Step 9: INSERT INTO customers_fts(rowid, AccountName) SELECT CustomerNumber,
\* AccountName FROM customers; one statement, so a failing row undoes it all.
FtsInsert(db) ==
    LET r == ExecuteMany(db, "customers_fts",
                 [i \in 1..Len(db.customers) |->
                     [rowid |-> db.customers[i].CustomerNumber,
                      AccountName |-> db.customers[i].AccountName]])
    IN  IF r.ok THEN r ELSE [ok |-> FALSE, db |-> db]


\* ------------------------------------------------------------------ state
VARIABLES
    src,        \* the three source stores read by the run (never written)
    db,         \* master.db as committed: what a reader or a later run finds
    tx,         \* master.db as master_conn sees it: db plus its uncommitted writes
    mode,       \* the script that runs: "atomic" or "stepwise"
    pc,         \* where the script is: [at, step, idx]
    run,        \* the number of the run; also the reading of the clock (now)
    skips,      \* steps declined so far
    faults,     \* unexpected errors so far
    rows,       \* the rows fetched for the loop in progress
    migrated,   \* the loop's counter of inserted rows
    report,     \* per step, the counts the run has printed: [succeeded, failed]
    status,     \* the table counts printed last
    hist        \* history of this run, per step (0 is the clear, 11 the commit):
                \* ran, result, rows read, rows added, rows of its table
                \* before it, and the kinds of the errors raised in it

vars == <<src, db, tx, mode, pc, run, skips, faults, rows, migrated, report, status, hist>>

Steps == 1..10

\* The table each row-inserting step writes.
StepTable ==
    <<"categories", "direct_sales", "customers", "rental_items_catalog",
      "customer_rental_items", "routes">>

At(at, step, idx) == [at |-> at, step |-> step, idx |-> idx]

NoReport == [i \in Steps |-> [succeeded |-> Null, failed |-> Null]]

H(result, read, added, before, errors) ==
    [ran |-> TRUE, result |-> result, read |-> read, added |-> added, before |-> before,
     errors |-> errors]

NoHist ==
    [i \in 0..11 |-> [ran |-> FALSE, result |-> "none", read |-> 0, added |-> 0,
                      before |-> 0, errors |-> {}]]

\* print_status: the counts of its seven tables.
StatusTables ==
    <<"customers", "rental_items_catalog", "customer_rental_items", "direct_sales",
      "routes", "route_load_summary", "drivers">>

Count(db_, tbl) ==
    IF tbl = "route_load_summary" THEN BagCardinality(db_[tbl]) ELSE Len(db_[tbl])

print_status(db_) == [i \in 1..Len(StatusTables) |-> Count(db_, StatusTables[i])]

IntegrityErrors(failed) == IF failed > 0 THEN {"IntegrityError"} ELSE {}

\* Both scripts start with the handles open; the first run finds master.db empty.
Init ==
    /\ src \in Inputs
    /\ db = EmptyDB
    /\ tx = EmptyDB
    /\ mode \in {"atomic", "stepwise"}
    /\ pc = At("start", 0, 0)
    /\ run = 1
    /\ skips = 0
    /\ faults = 0
    /\ rows = <<>>
    /\ migrated = 0
    /\ report = NoReport
    /\ status = <<>>
    /\ hist = NoHist

\* ----------------------------------------------------- migrate_data.py
\* The clear of the atomic script: every table of the list that the DELETE
\* does not fail on is emptied (an OperationalError is caught per table).
RECURSIVE ClearFrom(_, _, _)
ClearFrom(db_, k, kept) ==
    IF k > Len(ClearList) THEN db_
    ELSE ClearFrom(IF k \in kept THEN db_ ELSE Delete(db_, ClearList[k]), k + 1, kept)

ClearAll(db_, kept) == ClearFrom(db_, 1, kept)

AtStep(i) == mode = "atomic" /\ pc = At("step", i, 0)

\* A faulty variant: the script without its step 4: step 3 is followed by step 5.
ProceedPastCatalog(i, newtx, succeeded, failed, read, errors) ==
    /\ tx' = newtx
    /\ pc' = At("step", IF i = 3 THEN 5 ELSE i + 1, 0)
    /\ report' = [report EXCEPT ![i] = [succeeded |-> succeeded, failed |-> failed]]
    /\ hist' = [hist EXCEPT ![i] =
                   H("ok", read,
                     IF i \in 1..6 THEN Len(newtx[StepTable[i]]) - Len(tx[StepTable[i]]) ELSE 0,
                     IF i \in 1..6 THEN Len(tx[StepTable[i]]) ELSE 0, errors)]
    /\ UNCHANGED <<src, db, mode, run, skips, faults, rows, migrated, status>>

\* The step ended without raising: the script goes on to the next one.
Proceed(i, newtx, succeeded, failed, read, errors) ==
    /\ tx' = newtx
    /\ pc' = At("step", i + 1, 0)
    /\ report' = [report EXCEPT ![i] = [succeeded |-> succeeded, failed |-> failed]]
    /\ hist' = [hist EXCEPT ![i] =
                   H("ok", read,
                     IF i \in 1..6 THEN Len(newtx[StepTable[i]]) - Len(tx[StepTable[i]]) ELSE 0,
                     IF i \in 1..6 THEN Len(tx[StepTable[i]]) ELSE 0, errors)]
    /\ UNCHANGED <<src, db, mode, run, skips, faults, rows, migrated, status>>

\* A faulty variant: the handler commits what the transaction holds instead of undoing it.
RollbackCommits ==
    /\ db' = tx
    /\ tx' = tx
    /\ pc' = At("finally", 0, 0)
    /\ UNCHANGED <<src, mode, run, skips, rows, migrated, report, status>>

\* except Exception: master_conn.rollback().
Rollback ==
    /\ tx' = db
    /\ pc' = At("finally", 0, 0)
    /\ UNCHANGED <<src, db, mode, run, skips, rows, migrated, report, status>>

\* A faulty variant: the error of step i is swallowed and the script goes on.
RaiseSwallowed(i, read, error) ==
    /\ tx' = tx
    /\ pc' = At("step", i + 1, 0)
    /\ hist' = [hist EXCEPT ![i] = H("ok", read, 0, 0, {error})]
    /\ UNCHANGED <<src, db, mode, run, skips, rows, migrated, report, status>>

\* A statement of step i raised error: the outer handler rolls everything back.
Raise(i, read, error) ==
    /\ Rollback
    /\ hist' = [hist EXCEPT ![i] = H("raised", read, 0, 0, {error})]

\* BEGIN TRANSACTION and the clear.
AtomicClear ==
    /\ mode = "atomic" /\ pc = At("start", 0, 0)
    /\ tx' = ClearAll(tx, {})
    /\ pc' = At("step", 1, 0)
    /\ hist' = [hist EXCEPT ![0] = H("ok", 0, 0, 0, {})]
    /\ UNCHANGED <<src, db, mode, run, skips, faults, rows, migrated, report, status>>

\* The clear with the DELETE of one table failing with sqlite3.OperationalError:
\* a warning is printed and the table keeps its rows.
AtomicClearWarning ==
    /\ mode = "atomic" /\ pc = At("start", 0, 0)
    /\ faults < MaxFaults
    /\ \E k \in 1..Len(ClearList) : tx' = ClearAll(tx, {k})
    /\ faults' = faults + 1
    /\ pc' = At("step", 1, 0)
    /\ hist' = [hist EXCEPT ![0] = H("ok", 0, 0, 0, {"OperationalError"})]
    /\ UNCHANGED <<src, db, mode, run, skips, rows, migrated, report, status>>

\* 1. categories, by executemany.
AtomicCategories ==
    /\ AtStep(1)
    /\ LET categories == CategoryRows(src)
           r == ExecuteMany(tx, "categories", categories)
       IN  IF r.ok
           THEN Proceed(1, r.db, Some(Len(categories)), Null, Len(categories), {})
           ELSE Raise(1, Len(categories), "IntegrityError") /\ UNCHANGED faults

\* 2. products, by executemany.
AtomicProducts ==
    /\ AtStep(2)
    /\ LET products == ProductRows(src)
           r == ExecuteMany(tx, "direct_sales", products)
       IN  IF r.ok
           THEN Proceed(2, r.db, Some(Len(products)), Null, Len(products), {})
           ELSE Raise(2, Len(products), "IntegrityError") /\ UNCHANGED faults

\* 3. customers, one INSERT each; only successful_customers is counted.
AtomicCustomers ==
    /\ AtStep(3)
    /\ LET customers == CustomerRows(src, run)
           r == InsertEach(tx, "customers", customers)
       IN  Proceed(3, r.db, Some(r.succeeded), Null, Len(customers),
                   IntegrityErrors(r.failed))

\* 4. the rental catalog; successful and failed items are counted.
AtomicCatalog ==
    /\ AtStep(4)
    /\ \E unique_items \in UniqueItems(src) :
          LET r == InsertEach(tx, "rental_items_catalog", CatalogRows("atomic", unique_items))
          IN  Proceed(4, r.db, Some(r.succeeded), Some(r.failed), Len(unique_items),
                      IntegrityErrors(r.failed))

\* 5. the customers' rental items; successful and failed items are counted.
AtomicRentalItems ==
    /\ AtStep(5)
    /\ LET items == RentalRows(src)
           r == InsertEach(tx, "customer_rental_items", items)
       IN  Proceed(5, r.db, Some(r.succeeded), Some(r.failed), Len(items),
                   IntegrityErrors(r.failed))

\* 6. the routes; only successful_routes is counted.
AtomicRoutes ==
    /\ AtStep(6)
    /\ LET unique_routes == UniqueRoutes(src)
           r == RouteLoop(src, tx, unique_routes, {})
       IN  Proceed(6, r.db, Some(r.succeeded), Null, Len(unique_routes), r.errors)

\* 6 with an unexpected error in the body of the loop for one route: it is
\* caught with the rest and the route is left out.
AtomicRouteError ==
    /\ AtStep(6)
    /\ faults < MaxFaults
    /\ faults' = faults + 1
    /\ \E unlucky \in {src.routes[k].RouteNumber : k \in 1..Len(src.routes)} :
          LET unique_routes == UniqueRoutes(src)
              r == RouteLoop(src, tx, unique_routes, {unlucky})
          IN  /\ tx' = r.db
              /\ pc' = At("step", 7, 0)
              /\ report' = [report EXCEPT ![6] = [succeeded |-> Some(r.succeeded),
                                                  failed |-> Null]]
              /\ hist' = [hist EXCEPT ![6] =
                             H("ok", Len(unique_routes), Len(r.db.routes) - Len(tx.routes),
                               Len(tx.routes), r.errors)]
    /\ UNCHANGED <<src, db, mode, run, skips, rows, migrated, status>>

\* 7. the load summary, then the count of the table.
AtomicRouteLoads ==
    /\ AtStep(7)
    /\ \E selected \in RouteLoadSelect(tx) :
          LET new == InsertRouteLoads(tx, selected)
          IN  Proceed(7, new, Some(Count(new, "route_load_summary")), Null,
                      Cardinality(selected), {})

\* 8. the SuperAdmin account.
AtomicAdmin ==
    /\ AtStep(8)
    /\ Proceed(8, Execute(tx, "drivers", AdminRow(AdminRoute("atomic", tx), run)).db,
               Null, Null, 1, {})

\* 9. the search index: an INSERT .. SELECT into customers_fts, which the
\* clear does not empty.
AtomicFts ==
    /\ AtStep(9)
    /\ LET r == FtsInsert(tx)
       IN  IF r.ok
           THEN Proceed(9, r.db, Null, Null, Len(tx.customers), {})
           ELSE Raise(9, Len(tx.customers), "IntegrityError") /\ UNCHANGED faults

\* 10. the standardization scores.
AtomicScores ==
    /\ AtStep(10)
    /\ Proceed(10, UpdateScores(tx, ScoreKey("atomic")), Null, Null,
               Len(tx.rental_items_catalog), {})

\* master_conn.commit(), then the final record counts.
AtomicCommit ==
    /\ AtStep(11)
    /\ db' = tx
    /\ status' = SubSeq(print_status(tx), 1, 6)
    /\ pc' = At("finally", 0, 0)
    /\ hist' = [hist EXCEPT ![11] = H("ok", 0, 0, 0, {})]
    /\ UNCHANGED <<src, tx, mode, run, skips, faults, rows, migrated, report>>

\* An unexpected error (an I/O error, a locked or missing table) raised by a
\* statement outside the route loop, up to and including the commit.
AtomicError ==
    /\ mode = "atomic"
    /\ pc.at = "step"
    /\ faults < MaxFaults
    /\ faults' = faults + 1
    /\ Raise(pc.step, 0, "OperationalError")


\* ---------------------------------------------------- step_migration.py
\* The prompt after step i: the next step's, or the end of the list.
NextPrompt(i) == IF i = 10 THEN At("finally", 0, 0) ELSE At("ask", i + 1, 0)

Asked(i) == mode = "stepwise" /\ pc = At("ask", i, 0)

\* A faulty variant: a step that returns False ends the run.
ReturnedOrAborted(i, newtx, result, read, added, errors) ==
    /\ tx' = newtx
    /\ status' = print_status(newtx)
    /\ pc' = IF result = "failed" THEN At("finally", 0, 0) ELSE NextPrompt(i)
    /\ hist' = [hist EXCEPT ![i] = H(result, read, added, @.before, @.errors \cup errors)]

\* func() returned: the outcome is printed, then print_status().
Returned(i, newtx, result, read, added, errors) ==
    /\ tx' = newtx
    /\ status' = print_status(newtx)
    /\ pc' = NextPrompt(i)
    /\ hist' = [hist EXCEPT ![i] = H(result, read, added, @.before, @.errors \cup errors)]

\* "Do you want to delete existing data before migration?"
AnswerClear ==
    /\ mode = "stepwise" /\ pc = At("start", 0, 0)
    /\ \E choice \in {"y", "n"} :
          IF choice = "y"
          THEN pc' = At("clear", 0, 1) /\ hist' = [hist EXCEPT ![0] = H("ok", 0, 0, 0, {})]
          ELSE pc' = At("ask", 1, 0) /\ UNCHANGED hist
    /\ UNCHANGED <<src, db, tx, mode, run, skips, faults, rows, migrated, report, status>>

\* After the last table of the list: DELETE FROM sqlite_sequence and the prompts.
AfterClear(k) == IF k = Len(ClearList) THEN At("ask", 1, 0) ELSE At("clear", 0, k + 1)

\* The clear of one table, committed at once.
ClearTable ==
    /\ mode = "stepwise" /\ pc.at = "clear"
    /\ tx' = Delete(tx, ClearList[pc.idx])
    /\ db' = tx'
    /\ pc' = AfterClear(pc.idx)
    /\ UNCHANGED <<src, mode, run, skips, faults, rows, migrated, report, status, hist>>

\* The DELETE of one table fails with sqlite3.OperationalError: a warning,
\* no commit, and the clear goes on with the next table.
ClearTableWarning ==
    /\ mode = "stepwise" /\ pc.at = "clear"
    /\ faults < MaxFaults
    /\ faults' = faults + 1
    /\ pc' = AfterClear(pc.idx)
    /\ hist' = [hist EXCEPT ![0].errors = @ \cup {"OperationalError"}]
    /\ UNCHANGED <<src, db, tx, mode, run, skips, rows, migrated, report, status>>

\* "Run this step?" answered with anything but y.
SkipStep ==
    /\ mode = "stepwise" /\ pc.at = "ask"
    /\ skips < MaxSkips
    /\ skips' = skips + 1
    /\ pc' = NextPrompt(pc.step)
    /\ UNCHANGED <<src, db, tx, mode, run, faults, rows, migrated, report, status, hist>>

\* The rows the loop of step i (1..6) goes through; unique_items is the
\* answer of the catalog query.
Candidates(i, unique_items) ==
    CASE i = 1 -> CategoryRows(src)
      [] i = 2 -> ProductRows(src)
      [] i = 3 -> CustomerRows(src, run)
      [] i = 4 -> CatalogRows("stepwise", unique_items)
      [] i = 5 -> RentalRows(src)
      [] i = 6 -> UniqueRoutes(src)

\* What print(f"Migrated {..}") of step i shows: the count of the table in
\* migrate_categories, the loop's counter elsewhere.
Printed(i, db_, counter) == IF i = 1 THEN Some(Len(db_.categories)) ELSE Some(counter)

\* The loop of step i is over: the count is printed and the step returns True.
LoopDone(i, newtx, counter, read, errors) ==
    /\ Returned(i, newtx, "ok", read, counter, errors)
    /\ report' = [report EXCEPT ![i] = [succeeded |-> Printed(i, newtx, counter),
                                        failed |-> Null]]

\* The loop of step i goes on with its next row.
LoopOn(i, newtx, counter, errors) ==
    /\ tx' = newtx
    /\ pc' = At("loop", i, pc.idx + 1)
    /\ hist' = [hist EXCEPT ![i].added = counter, ![i].errors = @ \cup errors]
    /\ UNCHANGED <<report, status>>

\* Steps 1..6 confirmed: the source rows are fetched and the loop starts.
BeginLoop ==
    /\ \E i \in 1..6 :
        /\ Asked(i)
        /\ \E unique_items \in UniqueItems(src) :
              /\ rows' = Candidates(i, unique_items)
              /\ migrated' = 0
              /\ IF rows' = <<>>
                 THEN /\ hist' = [hist EXCEPT ![i] = H("ok", 0, 0, Len(db[StepTable[i]]), {})]
                      /\ tx' = tx
                      /\ status' = print_status(tx)
                      /\ pc' = NextPrompt(i)
                      /\ report' = [report EXCEPT ![i] = [succeeded |-> Printed(i, tx, 0),
                                                          failed |-> Null]]
                 ELSE /\ pc' = At("loop", i, 1)
                      /\ hist' = [hist EXCEPT ![i] =
                                     H("running", Len(rows'), 0, Len(db[StepTable[i]]), {})]
                      /\ UNCHANGED <<tx, report, status>>
    /\ UNCHANGED <<src, db, mode, run, skips, faults>>

\* The body of the loop for one row: the INSERT (for a route, the row is
\* built first) and the commit; an IntegrityError (for a route, any
\* exception) is printed and the loop continues.
RowInsert(i, db_, row) ==
    IF i = 6 THEN RouteInsert("stepwise", src, db_, row)
    ELSE LET r == Execute(db_, StepTable[i], row)
         IN  [ok |-> r.ok, db |-> r.db, error |-> "IntegrityError"]

\* A faulty variant: the loop body without its master_conn.commit().
LoopRowNoCommit ==
    /\ mode = "stepwise" /\ pc.at = "loop"
    /\ LET i == pc.step
           r == RowInsert(i, tx, rows[pc.idx])
           counter == IF r.ok THEN migrated + 1 ELSE migrated
           errors == IF r.ok THEN {} ELSE {r.error}
       IN  /\ db' = db
           /\ migrated' = counter
           /\ IF pc.idx = Len(rows)
              THEN LoopDone(i, r.db, counter, Len(rows), errors)
              ELSE LoopOn(i, r.db, counter, errors)
    /\ UNCHANGED <<src, mode, run, skips, faults, rows>>

LoopRow ==
    /\ mode = "stepwise" /\ pc.at = "loop"
    /\ LET i == pc.step
           r == RowInsert(i, tx, rows[pc.idx])
           counter == IF r.ok THEN migrated + 1 ELSE migrated
           errors == IF r.ok THEN {} ELSE {r.error}
       IN  /\ db' = IF r.ok THEN r.db ELSE db
           /\ migrated' = counter
           /\ IF pc.idx = Len(rows)
              THEN LoopDone(i, r.db, counter, Len(rows), errors)
              ELSE LoopOn(i, r.db, counter, errors)
    /\ UNCHANGED <<src, mode, run, skips, faults, rows>>

\* An unexpected error in the body of the route loop (the INSERT or its
\* commit raises): except Exception prints it and the loop continues; a row
\* whose commit raised stays uncommitted in the connection.
RouteRowError ==
    /\ mode = "stepwise" /\ pc.at = "loop" /\ pc.step = 6
    /\ faults < MaxFaults
    /\ faults' = faults + 1
    /\ \E pending \in {tx, RowInsert(6, tx, rows[pc.idx]).db} :
          IF pc.idx = Len(rows)
          THEN LoopDone(6, pending, migrated, Len(rows), {"OperationalError"})
          ELSE LoopOn(6, pending, migrated, {"OperationalError"})
    /\ UNCHANGED <<src, db, mode, run, skips, rows, migrated>>

\* calculate_route_loads: False when a base table is empty, else the INSERT
\* and the commit.
StepRouteLoads ==
    /\ Asked(7)
    /\ IF HasPrerequisites(tx)
       THEN \E selected \in RouteLoadSelect(tx) :
               LET new == InsertRouteLoads(tx, selected)
               IN  /\ db' = new
                   /\ Returned(7, new, "ok", Cardinality(selected), Cardinality(selected), {})
                   /\ report' = [report EXCEPT ![7] =
                                    [succeeded |-> Some(Count(new, "route_load_summary")),
                                     failed |-> Null]]
       ELSE /\ Returned(7, tx, "failed", 0, 0, {})
            /\ UNCHANGED <<db, report>>
    /\ UNCHANGED <<src, mode, run, skips, faults, rows, migrated>>

\* create_admin_account.
StepAdmin ==
    /\ Asked(8)
    /\ LET new == Execute(tx, "drivers", AdminRow(AdminRoute("stepwise", tx), run)).db
       IN  db' = new /\ Returned(8, new, "ok", 1, 1, {})
    /\ UNCHANGED <<src, mode, run, skips, faults, rows, migrated, report>>

\* update_fts_index: DELETE, INSERT .. SELECT, commit.
StepFts ==
    /\ Asked(9)
    /\ LET r == FtsInsert(Delete(tx, "customers_fts"))
       IN  IF r.ok
           THEN db' = r.db /\ Returned(9, r.db, "ok", Len(tx.customers), Len(tx.customers), {})
           ELSE UNCHANGED db
                /\ Returned(9, r.db, "failed", Len(tx.customers), 0, {"IntegrityError"})
    /\ UNCHANGED <<src, mode, run, skips, faults, rows, migrated, report>>

\* update_standardization_scores.
StepScores ==
    /\ Asked(10)
    /\ LET new == UpdateScores(tx, ScoreKey("stepwise"))
       IN  db' = new /\ Returned(10, new, "ok", Len(tx.rental_items_catalog), 0, {})
    /\ UNCHANGED <<src, mode, run, skips, faults, rows, migrated, report>>

\* The uncommitted states in which an unexpected error can interrupt the
\* function of step i: before its first statement, or after a statement
\* whose commit (or next statement) raised.
Interrupted(i) ==
    IF pc.at = "loop" THEN {tx, RowInsert(i, tx, rows[pc.idx]).db}
    ELSE CASE i = 7 -> {tx} \cup (IF HasPrerequisites(tx)
                                  THEN {InsertRouteLoads(tx, sel) : sel \in RouteLoadSelect(tx)}
                                  ELSE {})
           [] i = 8 -> {tx, Execute(tx, "drivers", AdminRow(AdminRoute("stepwise", tx), run)).db}
           [] i = 9 -> {tx, Delete(tx, "customers_fts"),
                        FtsInsert(Delete(tx, "customers_fts")).db}
           [] i = 10 -> {tx, UpdateScores(tx, ScoreKey("stepwise"))}
           [] OTHER -> {tx}

\* An unexpected error inside the function of a step, outside the body of
\* the route loop: its except Exception prints it and returns False;
\* nothing is rolled back.
StepError ==
    /\ mode = "stepwise" /\ pc.at \in {"ask", "loop"}
    /\ ~(pc.at = "loop" /\ pc.step = 6)
    /\ faults < MaxFaults
    /\ faults' = faults + 1
    /\ \E pending \in Interrupted(pc.step) :
          Returned(pc.step, pending, "failed",
                   IF pc.at = "loop" THEN Len(rows) ELSE 0,
                   IF pc.at = "loop" THEN migrated ELSE 0, {"OperationalError"})
    /\ UNCHANGED <<src, db, mode, run, skips, rows, migrated, report>>

\* A faulty variant: the error of input() is not caught and the finally
\* block is not reached.
InputErrorUncaught ==
    /\ mode = "stepwise" /\ pc.at \in {"start", "ask"}
    /\ faults < MaxFaults
    /\ faults' = faults + 1
    /\ pc' = At("closed", 0, 0)
    /\ UNCHANGED <<src, db, tx, mode, run, skips, rows, migrated, report, status, hist>>

\* input() raises (end of input): the outer handler prints it.
InputError ==
    /\ mode = "stepwise" /\ pc.at \in {"start", "ask"}
    /\ faults < MaxFaults
    /\ faults' = faults + 1
    /\ pc' = At("finally", 0, 0)
    /\ UNCHANGED <<src, db, tx, mode, run, skips, rows, migrated, report, status, hist>>

\* A faulty variant: the error of sqlite3.connect is swallowed and the script goes on.
ConnectErrorIgnored ==
    /\ pc = At("start", 0, 0)
    /\ faults < MaxFaults
    /\ faults' = faults + 1
    /\ tx' = ClearAll(tx, {})
    /\ db' = IF mode = "atomic" THEN db ELSE tx'
    /\ pc' = IF mode = "atomic" THEN At("step", 1, 0) ELSE At("ask", 1, 0)
    /\ hist' = [hist EXCEPT ![0] = [ran |-> TRUE, result |-> "raised", read |-> 0,
                                     added |-> 0, before |-> 0,
                                     errors |-> {"OperationalError"}]]
    /\ UNCHANGED <<src, mode, run, skips, rows, migrated, report, status>>

\* sqlite3.connect of a source or of the target (or the PRAGMA on the new
\* connection) raises: the statements are at module level, outside every try,
\* so the script ends there.
ConnectError ==
    /\ pc = At("start", 0, 0)
    /\ faults < MaxFaults
    /\ faults' = faults + 1
    /\ pc' = At("closed", 0, 0)
    /\ hist' = [hist EXCEPT ![0] = [ran |-> FALSE, result |-> "raised", read |-> 0,
                                     added |-> 0, before |-> 0,
                                     errors |-> {"OperationalError"}]]
    /\ UNCHANGED <<src, db, tx, mode, run, skips, rows, migrated, report, status>>

\* finally: the five connections are closed; what master_conn had not
\* committed is gone.
Close ==
    /\ pc.at = "finally"
    /\ tx' = db
    /\ pc' = At("closed", 0, 0)
    /\ UNCHANGED <<src, db, mode, run, skips, faults, rows, migrated, report, status, hist>>

\* One of the scripts is run again on the same sources.
Restart ==
    /\ pc.at = "closed"
    /\ run < MaxRuns
    /\ run' = run + 1
    /\ mode' \in {"atomic", "stepwise"}
    /\ pc' = At("start", 0, 0)
    /\ rows' = <<>>
    /\ migrated' = 0
    /\ report' = NoReport
    /\ status' = <<>>
    /\ hist' = NoHist
    /\ UNCHANGED <<src, db, tx, skips, faults>>

Next ==
    \/ AtomicClear \/ AtomicClearWarning
    \/ AtomicCategories \/ AtomicProducts \/ AtomicCustomers \/ AtomicCatalog
    \/ AtomicRentalItems \/ AtomicRoutes \/ AtomicRouteError \/ AtomicRouteLoads
    \/ AtomicAdmin \/ AtomicFts \/ AtomicScores \/ AtomicCommit \/ AtomicError
    \/ AnswerClear \/ ClearTable \/ ClearTableWarning \/ SkipStep
    \/ BeginLoop \/ LoopRow \/ RouteRowError
    \/ StepRouteLoads \/ StepAdmin \/ StepFts \/ StepScores \/ StepError
    \/ InputError \/ ConnectError \/ Close \/ Restart

Spec == Init /\ [][Next]_vars

\* The positions of a script.
Positions ==
    { At(at, step, idx) : at \in {"start", "clear", "step", "ask", "loop", "finally", "closed"},
                          step \in 0..11, idx \in 0..(Len(ClearList) + 1) }

\* A run that has not ended moves on: the scripts are sequential programs,
\* so the statement at hand is executed, and the operator answers a prompt.
\* Every step of Next from a position other than "closed" is such a step.
RunStep == pc.at # "closed" /\ pc' \in Positions

LiveSpec == Spec /\ WF_pc(RunStep)


\* ================================================================= claims
\* A run of the stepwise script is between its prompts and its last step.
InSteps == mode = "stepwise" /\ pc.at \in {"ask", "loop"}

\* The part of the target that step j writes: its table (for the catalog
\* step the rows without their scores, for the score step the scores set).
Part(j, d) ==
    CASE j \in {1, 2, 3, 5, 6} -> d[StepTable[j]]
      [] j = 4 -> [k \in 1..Len(d.rental_items_catalog) |->
                     <<d.rental_items_catalog[k].item_id,
                       d.rental_items_catalog[k].description>>]
      [] j = 7 -> d.route_load_summary
      [] j = 8 -> d.drivers
      [] j = 9 -> d.customers_fts
      [] j = 10 -> { <<k, d.rental_items_catalog[k].standardization_score>> :
                       k \in { n \in 1..Len(d.rental_items_catalog) :
                                 d.rental_items_catalog[n].standardization_score # 0 } }

\* Every row of table t in a is, at the same place, in b (for the catalog,
\* up to its score).
RowsKeptIn(t, a, b) ==
    /\ Len(a[t]) <= Len(b[t])
    /\ \A k \in 1..Len(a[t]) :
          IF t = "rental_items_catalog"
          THEN [a[t][k] EXCEPT !.standardization_score = 0]
                 = [b[t][k] EXCEPT !.standardization_score = 0]
          ELSE a[t][k] = b[t][k]

RowsKept(a, b) ==
    /\ \A t \in {"categories", "direct_sales", "customers", "rental_items_catalog",
                 "customer_rental_items", "routes", "drivers"} : RowsKeptIn(t, a, b)
    /\ a.route_load_summary \sqsubseteq b.route_load_summary

\* C1: in atomic mode the committed target changes only at the commit that
\* follows the clear and ten steps that all ended without raising, and then
\* becomes the transaction's state; an error that reaches the outer handler
\* leaves the committed target as it was before the run, the clear undone.
C1_AtomicAllOrNothing ==
    [][ mode = "atomic" =>
          /\ db' # db =>
                /\ pc = At("step", 11, 0)
                /\ db' = tx
                /\ hist[0].ran
                /\ \A i \in Steps : hist[i].result = "ok"
          /\ (pc.at \in {"start", "step"} /\ pc'.at = "finally" /\ hist'[11].result # "ok") =>
                (db' = db /\ tx' = db) ]_vars

\* An atomic run that raised, on a target an earlier run had filled.
C1_Witness ==
    /\ mode = "atomic" /\ pc.at = "finally"
    /\ \E i \in 1..11 : hist[i].result = "raised" /\ hist[i].ran
    /\ \E i \in 1..5 : hist[i].result = "ok" /\ hist[i].added > 0
    /\ db.customers # <<>>
    /\ tx = db

\* C2: in stepwise mode a step that returns failure is followed by the next
\* step's prompt (the end of the list after the last step), and no stepwise
\* step removes or alters a row the target held before it (scores aside).
C2_FailedStepDoesNotAbort ==
    [][ InSteps =>
          /\ (hist'[pc.step].result = "failed") => (pc' = NextPrompt(pc.step))
          /\ RowsKept(db, db') ]_vars

\* A step failed, an earlier step's rows are committed, a later step added rows.
C2_Witness ==
    /\ mode = "stepwise"
    /\ \E k, i, j \in Steps :
          /\ k < i /\ i < j /\ k <= 6
          /\ hist[k].result = "ok" /\ hist[k].added > 0
          /\ Len(db[StepTable[k]]) >= hist[k].before + hist[k].added
          /\ hist[i].result = "failed"
          /\ hist[j].result = "ok" /\ hist[j].added > 0

\* C3 (as stated): while a row-inserting step of the stepwise script is in
\* its loop, nothing of it is committed.
C3_StepsDurableWhole ==
    (mode = "stepwise" /\ pc.at = "loop") =>
        Len(db[StepTable[pc.step]]) = hist[pc.step].before

\* The rows of the loop of step i, as the values its table's rows are compared with.
RowKey(i, row) == IF i = 6 THEN row.RouteNumber ELSE row

\* seq is made of elements of cands, in their order.
IsSubsequence(seq, cands) ==
    \E f \in [1..Len(seq) -> 1..Len(cands)] :
        /\ \A a, b \in 1..Len(seq) : a < b => f[a] < f[b]
        /\ \A a \in 1..Len(seq) : seq[a] = cands[f[a]]

\* C3 (amended): in stepwise mode the committed target holds nothing of a
\* step later in the list than the one at hand; a step that returns success
\* and met no error but constraint violations and unparsable route numbers
\* leaves its part of the target committed in full; and while a
\* row-inserting step is in its loop, the rows it has committed so far are
\* rows of its candidates already gone through, in read order.
C3_RowsDurableOneByOne ==
    [][ InSteps =>
          /\ \A j \in (pc.step + 1)..10 : Part(j, db') = Part(j, db)
          /\ (hist'[pc.step].result = "ok" /\ "OperationalError" \notin hist'[pc.step].errors) =>
                (Part(pc.step, db') = Part(pc.step, tx'))
          /\ (pc.at = "loop") =>
                LET t == StepTable[pc.step]
                    before == hist[pc.step].before
                    mine == [k \in 1..(Len(db[t]) - before) |->
                                RowKey(pc.step, db[t][before + k])]
                    gone == [k \in 1..(pc.idx - 1) |-> rows[k]]
                IN  Len(db[t]) >= before /\ IsSubsequence(mine, gone) ]_vars

\* A loop in progress with some of its rows committed and some still to come.
C3_Witness ==
    /\ mode = "stepwise" /\ pc.at = "loop"
    /\ Len(db[StepTable[pc.step]]) > hist[pc.step].before
    /\ pc.idx <= Len(rows)

\* C4 (as stated): in every run the rental-items step runs only after the
\* catalog step, the load summary is computed only after the customers and
\* the routes steps, and the search index is rebuilt only after the
\* customers step.
C4_PrerequisitesRan ==
    /\ hist[5].ran => hist[4].ran
    /\ (hist[7].result = "ok") => (hist[3].ran /\ hist[6].ran)
    /\ hist[9].ran => hist[3].ran

\* C4 (amended): in every run of either mode a step starts only when no
\* step later in the list has started; in atomic mode every earlier step of
\* the list has then ended without raising (so each prerequisite ran), while
\* in stepwise mode an earlier step may have been declined.
C4_StepsInListOrder ==
    [][ \A j \in Steps :
          (hist'[j].ran /\ ~hist[j].ran) =>
              /\ \A i \in Steps : i > j => ~hist[i].ran
              /\ mode = "atomic" => \A i \in Steps : i < j => hist[i].result = "ok" ]_vars

\* Every dependent step has run after its prerequisites.
C4_Witness ==
    /\ hist[4].ran /\ hist[5].ran /\ hist[3].ran /\ hist[6].ran
    /\ hist[7].result = "ok" /\ hist[9].result = "ok"

\* The candidates of step i (1..5) of the run at hand, in some read order.
CandidatesOf(i) ==
    CASE i = 1 -> CategoryRows(src)
      [] i = 2 -> ProductRows(src)
      [] i = 3 -> CustomerRows(src, run)
      [] i = 4 -> CatalogRows(mode, CHOOSE unique_items \in UniqueItems(src) : TRUE)
      [] i = 5 -> RentalRows(src)

\* The candidates of step i that a constraint rejects when they are written
\* one by one to an empty target.
Rejected(i) == InsertEach(EmptyDB, StepTable[i], CandidatesOf(i)).failed

\* C5 (as stated): in both modes, in a first run without unexpected errors,
\* when exactly one of the N candidates of a row-inserting step (categories,
\* products, customers, catalog, rental items) violates a constraint, the
\* step ends normally and has inserted exactly N-1 rows.
C5_RowFailureIsolated ==
    (run = 1 /\ faults = 0) =>
        \A i \in 1..5 :
            (hist[i].result \notin {"none", "running"} /\ Rejected(i) = 1) =>
                (hist[i].result = "ok" /\ hist[i].added = hist[i].read - 1)

Allowed(i) ==
    CASE i = 0 -> {"OperationalError"}
      [] i \in {3, 4, 5} -> {"IntegrityError"}
      [] i = 6 -> {"IntegrityError", "ValueError", "OperationalError"}
      [] OTHER -> {}

C7_CountsKept ==
    \A i \in 1..6 :
        (hist[i].result = "ok") =>
            /\ report[i].succeeded # Null
            /\ report[i].failed # Null
            /\ \A s \in report[i].succeeded, f \in report[i].failed :
                  /\ s + f = hist[i].read
                  /\ s = Len(tx[StepTable[i]]) - hist[i].before

\* C8 (as stated): once the customers step and then the rental-items step of
\* a first run have ended normally, every customer_rental_items row names
\* the CustomerNumber of a customers row (an orphan was rejected).
C8_RentalItemsReferenceCustomers ==
    (run = 1 /\ hist[3].result = "ok" /\ hist[5].result = "ok") =>
        \A k \in 1..Len(tx.customer_rental_items) :
            \E c \in 1..Len(tx.customers) :
                tx.customers[c].CustomerNumber = tx.customer_rental_items[k].CustomerNumber

\* C9 (as stated): in every committed state, over any sequence of runs,
\* route_load_summary is empty or is the aggregation of the committed
\* customer_rental_items, customers and routes.
C9_SummaryEmptyOrCurrent ==
    \/ db.route_load_summary = EmptyBag
    \/ \E selected \in RouteLoadSelect(db) : db.route_load_summary = SetToBag(selected)

\* C10 (as stated): when route_load_summary is the aggregation of the base
\* tables and the stepwise computation runs again on them, the summary is
\* still that aggregation (nothing is counted twice).
C10_RecomputeIdempotent ==
    [][ ( /\ mode = "stepwise"
          /\ hist[7].result # "ok" /\ hist'[7].result = "ok"
          /\ \E selected \in RouteLoadSelect(db) :
                db.route_load_summary = SetToBag(selected) ) =>
        \E selected \in RouteLoadSelect(db') :
            db'.route_load_summary = SetToBag(selected) ]_vars

\* The rental rows of d that belong to the triple g = <<route, day, item>>:
\* their customer exists, the customer's route exists and has that day.
TripleRows(d, g) ==
    { k \in 1..Len(d.customer_rental_items) :
        /\ d.customer_rental_items[k].item_id = g[3]
        /\ \E c \in 1..Len(d.customers), r \in 1..Len(d.routes) :
              /\ d.customers[c].CustomerNumber = d.customer_rental_items[k].CustomerNumber
              /\ d.customers[c].RouteNumber = g[1]
              /\ d.routes[r].RouteNumber = g[1]
              /\ d.routes[r].ServiceDay = g[2] }

\* The triples of d that have a rental row.
Triples(d) ==
    { g \in { <<d.routes[r].RouteNumber, d.routes[r].ServiceDay,
                d.customer_rental_items[k].item_id>> :
                r \in 1..Len(d.routes), k \in 1..Len(d.customer_rental_items) } :
        TripleRows(d, g) # {} }

RECURSIVE QuantityOf(_, _)
QuantityOf(d, K) ==
    IF K = {} THEN 0
    ELSE LET k == CHOOSE x \in K : TRUE
         IN  d.customer_rental_items[k].quantity_used + QuantityOf(d, K \ {k})

\* The bag B of summary rows has exactly one row per triple of d, with the
\* sum of the quantities of the triple's rental rows.
OneRowPerTriple(B, d) ==
    /\ \A row \in BagToSet(B) : CopiesIn(row, B) = 1
    /\ \A g \in Triples(d) :
          \E row \in BagToSet(B) :
              /\ <<row.RouteNumber, row.ServiceDay, row.item_id>> = g
              /\ row.total_quantity = QuantityOf(d, TripleRows(d, g))
    /\ BagCardinality(B) = Cardinality(Triples(d))

\* The route-load-summary step of this run has just ended normally.
RouteLoadsDone == hist[7].result # "ok" /\ hist'[7].result = "ok"

C12_EmptyBaseIsSkipped ==
    ( /\ hist[7].ran /\ hist[7].result # "running"
      /\ faults = 0
      /\ ~HasPrerequisites(tx) ) =>
        (hist[7].result \notin {"failed", "raised"} /\ hist[7].added = 0)

\* The customers of the rental rows of d with item_id X.
CustomersOfItem(d, X) ==
    { d.customer_rental_items[k].CustomerNumber :
        k \in { n \in 1..Len(d.customer_rental_items) :
                  d.customer_rental_items[n].item_id = X } }

\* C13 (as stated): after the standardization-score step of either mode has
\* ended normally, every catalog row's score is the number of distinct
\* customers among the rental rows with the row's item_id.
C13_ScoreCountsByItem ==
    (hist[10].result = "ok" /\ \A i \in 0..11 : hist[i].result # "raised") =>
        \A k \in 1..Len(tx.rental_items_catalog) :
            tx.rental_items_catalog[k].standardization_score
              = Cardinality(CustomersOfItem(tx, tx.rental_items_catalog[k].item_id))

\* The route identifiers of the source.
SourceRoutes == { src.routes[i].RouteNumber : i \in 1..Len(src.routes) }

HasSeparator(s) == \E i \in 1..Len(s) : s[i] = "-"

\* No step of this run has raised to the outer handler (which rolls back).
NotRolledBack == \A i \in 0..11 : hist[i].result # "raised"

\* The routes step of this run has ended, nothing unexpected happened in it
\* and its writes have not been rolled back.
RoutesStepDone ==
    /\ hist[6].result = "ok"
    /\ "OperationalError" \notin hist[6].errors
    /\ NotRolledBack

\* routes holds a row for route_number with these derived fields.
HasRoute(d, route_number, route_int, plant) ==
    \E k \in 1..Len(d.routes) :
        /\ d.routes[k].RouteNumber = route_number
        /\ d.routes[k].RouteInt = route_int
        /\ d.routes[k].PlantNumber = plant

\* C14: after the routes step of either mode, every source route identifier
\* "<plant>-<routeInt>" with both parts numeric has a routes row with the
\* identifier as RouteNumber, RouteInt = int(routeInt) and PlantNumber =
\* int(plant); "10-5" gives RouteInt 5 and PlantNumber 10.
C14_CompositeRouteParsed ==
    RoutesStepDone =>
        /\ \A rn \in SourceRoutes :
              LET parts == Split(rn, "-")
              IN  (HasSeparator(rn) /\ Len(parts) = 2 /\ IntOK(parts[1]) /\ IntOK(parts[2])) =>
                      HasRoute(tx, rn, Some(IntOf(parts[2])), Some(IntOf(parts[1])))
        /\ (R10x5 \in SourceRoutes) => HasRoute(tx, R10x5, Some(5), Some(10))

\* The routes step has written the row of "10-5".
C14_Witness ==
    /\ RoutesStepDone
    /\ R10x5 \in SourceRoutes
    /\ HasRoute(tx, R10x5, Some(5), Some(10))
    /\ hist[6].added > 0

\* C15: after the routes step of either mode, every source route identifier
\* that holds the separator but does not split into exactly two parts
\* ("33-5-1") has a routes row with the identifier as RouteNumber and RouteInt
\* and PlantNumber NULL; building that row raises nothing.
C15_MalformedCompositeKept ==
    RoutesStepDone =>
        \A rn \in SourceRoutes :
            (HasSeparator(rn) /\ Len(Split(rn, "-")) # 2) =>
                /\ HasRoute(tx, rn, Null, Null)
                /\ BuildRoute(mode, src, rn).ok

\* The routes step has written the opaque row of "33-5-1".
C15_Witness ==
    /\ RoutesStepDone
    /\ R33x5x1 \in SourceRoutes
    /\ HasRoute(tx, R33x5x1, Null, Null)
    /\ hist[6].added > 0

\* C16 (as stated): after the routes step of either mode, every source route
\* identifier that splits into exactly two parts of which one is not numeric
\* ("A-5") has a routes row with the identifier as RouteNumber and RouteInt
\* and PlantNumber NULL.
C16_NonNumericPartsKept ==
    RoutesStepDone =>
        \A rn \in SourceRoutes :
            LET parts == Split(rn, "-")
            IN  (HasSeparator(rn) /\ Len(parts) = 2 /\ ~(IntOK(parts[1]) /\ IntOK(parts[2]))) =>
                    HasRoute(tx, rn, Null, Null)

\* C17 (as stated): after the routes step, every source route identifier
\* without separator has a routes row whose RouteInt is the one the atomic
\* script derives and also the one the stepwise script derives, with
\* PlantNumber NULL.
C17_PlainRouteSameInBothModes ==
    RoutesStepDone =>
        \A rn \in SourceRoutes :
            (~HasSeparator(rn)) =>
                /\ HasRoute(tx, rn, BuildRoute("atomic", src, rn).row.RouteInt, Null)
                /\ HasRoute(tx, rn, BuildRoute("stepwise", src, rn).row.RouteInt, Null)

\* C18 (as stated): after the customers and the routes steps of a first run
\* (the target was empty), every customers row has exactly one routes row
\* with its RouteNumber.
C18_EveryCustomerHasItsRoute ==
    (run = 1 /\ hist[3].result = "ok" /\ RoutesStepDone) =>
        \A c \in 1..Len(tx.customers) :
            Cardinality({ k \in 1..Len(tx.routes) :
                            tx.routes[k].RouteNumber = tx.customers[c].RouteNumber }) = 1

\* The catalog rows of d with item_id X.
CatalogRowsOf(d, X) ==
    { k \in 1..Len(d.rental_items_catalog) : d.rental_items_catalog[k].item_id = X }

\* The descriptions the source gives to item_id X.
SourceDescriptions(X) ==
    { src.items[i].description : i \in { n \in 1..Len(src.items) : src.items[n].item_id = X } }

\* The catalog step of this run has ended normally and was not rolled back.
CatalogStepDone == hist[4].result = "ok" /\ NotRolledBack

\* C19 (as stated): after the rental-catalog step the catalog has a row for
\* every distinct (item_id, description) pair of the rental records.
C19_CatalogOneRowPerPair ==
    CatalogStepDone =>
        \A i \in 1..Len(src.items) :
            \E k \in CatalogRowsOf(tx, src.items[i].item_id) :
                tx.rental_items_catalog[k].description = src.items[i].description

\* C19 (amended): after the rental-catalog step of either mode the catalog
\* has exactly one row for every item_id of the rental records, with one of
\* the descriptions the records give to that item_id; no two catalog rows
\* have the same item_id (a further pair with an item_id already in the
\* catalog is rejected as a row-level failure).
C19_CatalogOneRowPerItem ==
    CatalogStepDone =>
        /\ \A i \in 1..Len(src.items) :
              /\ Cardinality(CatalogRowsOf(tx, src.items[i].item_id)) = 1
              /\ \A k \in CatalogRowsOf(tx, src.items[i].item_id) :
                    tx.rental_items_catalog[k].description
                      \in SourceDescriptions(src.items[i].item_id)
        /\ \A j, k \in 1..Len(tx.rental_items_catalog) :
              (j # k) => tx.rental_items_catalog[j].item_id # tx.rental_items_catalog[k].item_id

\* The catalog step has run on records that give two descriptions to one
\* item_id and a later item_id has its row.
C19_Witness ==
    /\ CatalogStepDone
    /\ \E i, j \in 1..Len(src.items) :
          /\ Cardinality(SourceDescriptions(src.items[i].item_id)) = 2
          /\ src.items[j].item_id > src.items[i].item_id
          /\ CatalogRowsOf(tx, src.items[j].item_id) # {}
    /\ "IntegrityError" \in hist[4].errors

\* The entries the search index of d must hold: one per customers row.
IndexEntries(d) ==
    { [rowid |-> d.customers[c].CustomerNumber, AccountName |-> d.customers[c].AccountName] :
        c \in 1..Len(d.customers) }

\* C20 (as stated): in both modes, when the search-index step has run (and
\* nothing unexpected happened), it has ended normally and customers_fts
\* holds exactly one entry for each customers row and no other entry.
C20_IndexRebuilt ==
    (hist[9].ran /\ hist[9].result # "running" /\ faults = 0) =>
        /\ hist[9].result = "ok"
        /\ { tx.customers_fts[k] : k \in 1..Len(tx.customers_fts) } = IndexEntries(tx)
        /\ Len(tx.customers_fts) = Len(tx.customers)

\* ---------------------------------------------------------------- C21
\* C21: after the admin step of either mode the drivers table holds a row of
\* role "SuperAdmin" with the fixed credential whose route_number is the
\* RouteNumber of the first row of routes when routes is not empty, and "33"
\* only when routes is empty.
C21_AdminOnFirstRoute ==
    (hist[8].result = "ok" /\ NotRolledBack) =>
        \E k \in 1..Len(tx.drivers) :
            /\ tx.drivers[k].role = "SuperAdmin"
            /\ tx.drivers[k].password_hash = AdminRow(<<>>, 0).password_hash
            /\ tx.drivers[k].route_number =
                  IF Len(tx.routes) = 0 THEN <<"3", "3">> ELSE tx.routes[1].RouteNumber

\* ---------------------------------------------------------------- C22
\* The customers rows the customers step of this run has written so far.
CustomersWritten == { k \in 1..Len(tx.customers) : k > hist[3].before }

\* C22: every customers row written by one run has Email and Phone absent and
\* the CreatedAt of every other customers row of that run, and its other
\* fields are those of a row of the route store.
C22_CustomerDefaults ==
    (hist[3].ran /\ NotRolledBack) =>
        \A k \in CustomersWritten :
            /\ tx.customers[k].Email = None
            /\ tx.customers[k].Phone = None
            /\ \A n \in CustomersWritten : tx.customers[n].CreatedAt = tx.customers[k].CreatedAt
            /\ \E i \in 1..Len(src.routes) :
                  /\ tx.customers[k].CustomerNumber = src.routes[i].CustomerNumber
                  /\ tx.customers[k].AccountName = src.routes[i].AccountName
                  /\ tx.customers[k].RouteNumber = src.routes[i].RouteNumber
                  /\ tx.customers[k].ServiceDays = src.routes[i].ServiceDays

C22_Witness ==
    /\ hist[3].result = "ok" /\ NotRolledBack
    /\ Cardinality(CustomersWritten) >= 2
    /\ \E k \in CustomersWritten : tx.customers[k].ServiceDays = None

\* ---------------------------------------------------------------- C23
\* The customer_rental_items rows the rental step of this run has written so
\* far; the table has no constraint the connection enforces, so the row at
\* position before + i comes from the i-th rental record.
RentalsWritten == { k \in 1..Len(tx.customer_rental_items) : k > hist[5].before }

\* The day of a route: the d in 1..5 with route = 5 * q + (d - 1) for some q.
DayOfRoute(route) ==
    IF route = Null THEN 1
    ELSE CHOOSE d \in 1..5 : \E q \in -2..2 : route = Some(5 * q + (d - 1))

\* C23: the delivery_day of a customer_rental_items row is (route mod 5) + 1
\* when the rental record has a route and 1 when it has none, it lies in 1..5
\* for every integer route, zero and negative ones included, and the row has
\* delivery_frequency "Weekly" and billing_frequency "Monthly".
C23_DeliveryDay ==
    (hist[5].ran /\ NotRolledBack) =>
        \A k \in RentalsWritten :
            LET row == tx.customer_rental_items[k]
                item == src.items[k - hist[5].before]
            IN  /\ row.delivery_day \in 1..5
                /\ row.delivery_day = DayOfRoute(item.route)
                /\ item.route = Some(-3) => row.delivery_day = 3
                /\ item.route = Some(0) => row.delivery_day = 1
                /\ item.route = Some(7) => row.delivery_day = 3
                /\ row.delivery_frequency = "Weekly"
                /\ row.billing_frequency = "Monthly"

C23_Witness ==
    /\ hist[5].result = "ok" /\ NotRolledBack
    /\ \E k \in RentalsWritten :
          /\ src.items[k - hist[5].before].route = Some(-3)
          /\ tx.customer_rental_items[k].delivery_day = 3

\* ---------------------------------------------------------------- C24
\* The routes rows the routes step of this run has written so far.
RoutesWritten == { k \in 1..Len(tx.routes) : k > hist[6].before }

\* The code in front of the first comma of a ServiceDays text, blanks dropped.
CodeBeforeComma(days) ==
    LET commas == {i \in 1..Len(days) : days[i] = ","}
        last == IF commas = {} THEN Len(days)
                ELSE (CHOOSE i \in commas : \A j \in commas : i <= j) - 1
    IN  SelectSeq(SubSeq(days, 1, last), LAMBDA c : c # " ")

\* The weekday the ServiceDays text of a customer row stands for.
WeekdayOf(days) ==
    IF days = None \/ days = <<>> THEN "Monday"
    ELSE LET code == CodeBeforeComma(days)
         IN  IF code = <<"T">> THEN "Tuesday"
             ELSE IF code = <<"W">> THEN "Wednesday"
             ELSE IF code = <<"T", "h">> THEN "Thursday"
             ELSE IF code = <<"F">> THEN "Friday"
             ELSE "Monday"

\* C24: the ServiceDay of a routes row is one of the five weekday names: the
\* name the first comma-separated code of the ServiceDays of the first
\* customer row on that route maps to, and Monday when that text is absent,
\* empty or not one of the five codes.
C24_ServiceDayOfFirstCode ==
    (hist[6].ran /\ NotRolledBack) =>
        \A k \in RoutesWritten :
            /\ tx.routes[k].ServiceDay \in {"Monday", "Tuesday", "Wednesday", "Thursday", "Friday"}
            /\ \A i \in 1..Len(src.routes) :
                  ( /\ src.routes[i].RouteNumber = tx.routes[k].RouteNumber
                    /\ \A j \in 1..(i - 1) : src.routes[j].RouteNumber # tx.routes[k].RouteNumber )
                  => tx.routes[k].ServiceDay = WeekdayOf(src.routes[i].ServiceDays)

C24_Witness ==
    /\ RoutesStepDone
    /\ \E k, n \in RoutesWritten :
          /\ tx.routes[k].RouteNumber = R7 /\ tx.routes[k].ServiceDay = "Thursday"
          /\ tx.routes[n].RouteNumber = R10x5 /\ tx.routes[n].ServiceDay = "Monday"

\* ---------------------------------------------------------------- C25
\* The step (1..10) a run is executing, 0 when it is executing none.
StepAt == IF pc.at \in {"step", "ask", "loop"} /\ pc.step \in 1..10 THEN pc.step ELSE 0

\* The source rows of step j (1, 2, 3, 5) by what identifies them, in read order.
SourceKeys(j) ==
    CASE j = 1 -> [i \in 1..Len(src.products.categories) |-> src.products.categories[i].id]
      [] j = 2 -> [i \in 1..Len(src.products.products) |-> src.products.products[i].sku]
      [] j = 3 -> [i \in 1..Len(src.routes) |-> src.routes[i].CustomerNumber]
      [] j = 5 -> [i \in 1..Len(src.items) |->
                     <<src.items[i].customer_num, src.items[i].item_id,
                       src.items[i].quantity_used>>]

\* The rows of step j's table in d behind the first n, by the same identification.
WrittenKeys(j, d, n) ==
    LET t == d[StepTable[j]]
        Key(row) == CASE j = 1 -> row.id
                      [] j = 2 -> row.sku
                      [] j = 3 -> row.CustomerNumber
                      [] j = 5 -> <<row.CustomerNumber, row.item_id, row.quantity_used>>
    IN  [k \in 1..(Len(t) - n) |-> Key(t[n + k])]

\* A transition inside a step that does not end the run: every row stays as
\* it was (scores aside), only the part of the step at hand changes, and the
\* rows the step has written come from distinct source rows.
CreatedOnce ==
    /\ RowsKept(tx, tx')
    /\ \A j \in 1..10 : j # StepAt => Part(j, tx') = Part(j, tx)
    /\ StepAt \in {1, 2, 3, 5} =>
          IsSubsequence(WrittenKeys(StepAt, tx', hist'[StepAt].before), SourceKeys(StepAt))
    /\ StepAt = 4 =>
          \A k, n \in (hist'[4].before + 1)..Len(tx'.rental_items_catalog) :
              /\ \E i \in 1..Len(src.items) :
                    /\ src.items[i].item_id = tx'.rental_items_catalog[k].item_id
                    /\ src.items[i].description = tx'.rental_items_catalog[k].description
              /\ k # n => tx'.rental_items_catalog[k].item_id
                            # tx'.rental_items_catalog[n].item_id
    /\ StepAt = 6 =>
          \A k, n \in (hist'[6].before + 1)..Len(tx'.routes) :
              /\ \E i \in 1..Len(src.routes) :
                    src.routes[i].RouteNumber = tx'.routes[k].RouteNumber
              /\ k # n => tx'.routes[k].RouteNumber # tx'.routes[n].RouteNumber
    /\ Len(tx'.drivers) <= Len(tx.drivers) + 1
    /\ (hist[10].result # "ok" /\ hist'[10].result = "ok") =>
          tx'.rental_items_catalog
            = UpdateScores([tx EXCEPT !.rental_items_catalog =
                               [k \in 1..Len(@) |-> [@[k] EXCEPT !.standardization_score = 0]]],
                           ScoreKey(mode)).rental_items_catalog

SecondRunEnded ==
    /\ run = 2 /\ pc.at = "closed"
    /\ faults = 0 /\ skips = 0
    /\ Rejected(1) = 0 /\ Rejected(2) = 0

\* C26 (as stated): a second full run against unchanged sources completes
\* as the first did and leaves every table with the rows of the first run:
\* one admin row, one customer_rental_items row per rental record, no
\* summary row twice, in atomic and in stepwise mode.
C26_SecondRunIdempotent ==
    SecondRunEnded =>
        /\ mode = "atomic" => hist[11].result = "ok"
        /\ mode = "stepwise" => \A i \in 1..10 : hist[i].result = "ok"
        /\ Len(db.drivers) = 1
        /\ Len(db.customer_rental_items) = Len(src.items)
        /\ \A row \in BagToSet(db.route_load_summary) : CopiesIn(row, db.route_load_summary) = 1

\* ---------------------------------------------------------------- C27
\* C27: when a source or the target cannot be opened, the run ends before
\* the clear and before any step: the committed target and the connection's
\* view are unchanged, nothing has run, and the run stays ended.
C27_ConnectErrorIsFatal ==
    [][ /\ (hist[0].result # "raised" /\ hist'[0].result = "raised") =>
              /\ db' = db /\ tx' = tx
              /\ pc = At("start", 0, 0) /\ pc'.at = "closed"
              /\ \A i \in 0..11 : ~hist'[i].ran
        /\ hist[0].result = "raised" =>
              /\ pc.at = "closed"
              /\ db' = db /\ tx' = tx
              /\ pc'.at = "start" ]_vars

\* A second run met the connectivity error and left the rows of the first run.
C27_Witness ==
    /\ hist[0].result = "raised" /\ pc.at = "closed"
    /\ run = 2
    /\ db.customers # <<>> /\ db.drivers # <<>>

\* ---------------------------------------------------------------- C28
\* C28 (as stated): in every run the target tables are cleared only after
\* the operator has answered yes to the clear prompt (the only prompt for it
\* is the stepwise script's); in stepwise mode a step starts only from its
\* own prompt, and a prompt that does not start its step leaves the target
\* as it was.
C28_OnlyOnConfirmation ==
    [][ /\ (pc.at \in {"start", "clear"} /\ tx' # tx) =>
              (mode = "stepwise" /\ pc.at = "clear" /\ hist[0].ran)
        /\ mode = "stepwise" =>
              /\ \A j \in 1..10 : (hist'[j].ran /\ ~hist[j].ran) => pc = At("ask", j, 0)
              /\ (pc.at = "ask" /\ ~hist'[pc.step].ran) => (db' = db /\ tx' = tx) ]_vars

\* ---------------------------------------------------------------- C29
\* C29 (as stated): in stepwise mode, once a step has been executed and the
\* script is at a prompt or at its end, the status printed last gives, for
\* every target table (categories, direct_sales, customers,
\* rental_items_catalog, customer_rental_items, routes, route_load_summary,
\* drivers and the search index), its committed row count.
C29_StatusOfEveryTable ==
    (mode = "stepwise" /\ pc.at \in {"ask", "finally"} /\ status # <<>>) =>
        \A t \in DOMAIN EmptyDB :
            \E i \in 1..Len(StatusTables) :
                StatusTables[i] = t /\ status[i] = Count(db, t)

\* ---------------------------------------------------------------- C30
\* A run on a cleared target has gone through every step without an error:
\* the atomic script has committed, the stepwise one has run its ten steps.
FullRunOnClearedTarget ==
    /\ run = 1 \/ (hist[0].ran /\ hist[0].errors = {})
    /\ \A i \in 1..10 : hist[i].result = "ok" /\ hist[i].errors = {}
    /\ IF mode = "atomic" THEN hist[11].result = "ok" ELSE pc.at \in {"finally", "closed"}

\* C30: with one customer (number 1, "Acme", route "10-5") and one rental
\* record (item 99, "Mat", customer 1, quantity 3, route 5) in the sources, a
\* full run of either mode on a cleared target leaves customer 1 in
\* customers, the route "10-5" with RouteInt 5 and PlantNumber 10 in routes,
\* exactly one customer_rental_items row (customer 1, item 99, quantity 3,
\* delivery_day 1) and exactly one route_load_summary row, of total_quantity 3.
C30_EndToEnd ==
    (src = EndToEnd /\ FullRunOnClearedTarget) =>
        /\ \E k \in 1..Len(db.customers) :
              db.customers[k].CustomerNumber = 1 /\ db.customers[k].AccountName = "Acme"
        /\ \E k \in 1..Len(db.routes) :
              /\ db.routes[k].RouteNumber = R10x5
              /\ db.routes[k].RouteInt = Some(5)
              /\ db.routes[k].PlantNumber = Some(10)
        /\ Len(db.customer_rental_items) = 1
        /\ db.customer_rental_items[1].CustomerNumber = 1
        /\ db.customer_rental_items[1].item_id = 99
        /\ db.customer_rental_items[1].quantity_used = 3
        /\ db.customer_rental_items[1].delivery_day = 1
        /\ BagCardinality(db.route_load_summary) = 1
        /\ \A row \in BagToSet(db.route_load_summary) :
              /\ row.total_quantity = 3
              /\ row.RouteNumber = R10x5 /\ row.item_id = 99

C30_Witness ==
    /\ src = EndToEnd /\ FullRunOnClearedTarget
    /\ run = 2 /\ mode = "stepwise"
    /\ BagCardinality(db.route_load_summary) = 1

\* ---------------------------------------------------------------- C31
\* C31 (as stated): in stepwise mode, when a step returns failure the
\* connection holds no uncommitted write of that step, and the commits of
\* the steps after it leave the committed part of a failed step as it was.
C31_FailedStepLeavesNothingPending ==
    [][ InSteps =>
          /\ (hist[pc.step].result # "failed" /\ hist'[pc.step].result = "failed") =>
                Part(pc.step, tx') = Part(pc.step, db')
          /\ \A j \in 1..(pc.step - 1) :
                hist[j].result = "failed" => Part(j, db') = Part(j, db) ]_vars

\* ---------------------------------------------------------------- C32
\* C32 (as stated): the two modes give the same rows.  The tables a
\* failure-free full run on a cleared target has left are the ones the steps
\* of either script compute from them: the admin's route_number, every
\* catalog score and every routes row are the same whichever script's rule
\* is applied.
C32_ModesAgree ==
    FullRunOnClearedTarget =>
        \A m \in {"atomic", "stepwise"} :
            /\ \A k \in 1..Len(db.drivers) : db.drivers[k].route_number = AdminRoute(m, db)
            /\ db.rental_items_catalog = UpdateScores(db, ScoreKey(m)).rental_items_catalog
            /\ \A k \in 1..Len(db.routes) :
                  BuildRoute(m, src, db.routes[k].RouteNumber).row = db.routes[k]

\* ---------------------------------------------------------------- C33
\* C33: every run ends; a run whose connections were opened ends through the
\* finally block, which closes the five connections, and only through it;
\* nothing but the closing happens in the finally block, and after it
\* nothing happens until the script is started again.
C33_TerminatesAndCloses ==
    /\ [][ /\ (pc.at # "closed" /\ pc'.at = "closed") =>
                 (pc.at = "finally" \/ hist'[0].result = "raised")
           /\ pc.at = "finally" =>
                 (pc'.at = "closed" /\ db' = db /\ hist' = hist)
           /\ pc.at = "closed" =>
                 (pc' = At("start", 0, 0) /\ run' = run + 1 /\ db' = db)
           /\ pc' \in Positions \ {pc} ]_vars
    /\ (pc.at # "closed") ~> (pc.at = "closed")

\* A stepwise run has ended after an error while reading an answer: a fault
\* was met, no step recorded an error, and the last step never started.
C33_Witness ==
    /\ mode = "stepwise" /\ pc.at = "closed" /\ run = 1 /\ faults = 1
    /\ \A i \in 0..11 : hist[i].errors = {} /\ hist[i].result # "raised"
    /\ hist[1].result = "ok" /\ hist[10].result = "none"

\* ---------------------------------------------------------------- C34
\* The candidates of step i (1..3) that are the first of their key in read order.
FirstOfKey(i) ==
    LET cands == CandidatesOf(i)
        col == UniqueColumn[StepTable[i]]
    IN  { c \in 1..Len(cands) : \A e \in 1..(c - 1) : cands[e][col] # cands[c][col] }

\* Table StepTable[i] of d holds exactly the candidates of step i that are the
\* first of their key, in read order.
FirstWins(i, d) ==
    /\ Len(d[StepTable[i]]) = Cardinality(FirstOfKey(i))
    /\ \A c \in FirstOfKey(i) :
          \E k \in 1..Len(d[StepTable[i]]) : d[StepTable[i]][k] = CandidatesOf(i)[c]

\* The catalog of d holds one row per item_id of the source, each with a
\* description the source gives for that item.
OnePerItem(d) ==
    /\ \A k, n \in 1..Len(d.rental_items_catalog) :
          k # n => d.rental_items_catalog[k].item_id # d.rental_items_catalog[n].item_id
    /\ { d.rental_items_catalog[k].item_id : k \in 1..Len(d.rental_items_catalog) }
         = { src.items[j].item_id : j \in 1..Len(src.items) }
    /\ \A k \in 1..Len(d.rental_items_catalog) :
          \E j \in 1..Len(src.items) :
              /\ src.items[j].item_id = d.rental_items_catalog[k].item_id
              /\ src.items[j].description = d.rental_items_catalog[k].description

\* C34 (as stated): in both modes, in a first run without unexpected errors,
\* once the categories, products, customers or catalog step has ended the
\* target holds, of the candidates with the same key, the one that comes
\* first in read order, and it holds it unaltered.
C34_FirstWins ==
    (run = 1 /\ faults = 0) =>
        /\ \A i \in 1..3 : hist[i].result \in {"ok", "raised"} => FirstWins(i, tx)
        /\ hist[4].result \in {"ok", "raised"} => OnePerItem(tx)

====
